---- MODULE Spec2Model ----
(***************************************************************************)
(* The GeoJSON Feature codec of src/src/feature.rs: the encoder            *)
(* `impl From<&Feature> for JsonObject`, the decoders                      *)
(* `impl TryFrom<JsonObject> for FeatureBase` and                          *)
(* `impl TryFrom<JsonValue> for FeatureBase`, and the identifier type Id.  *)
(*                                                                         *)
(* Values.  Option<T> is a sequence of length 0 (None) or 1 (Some).  A     *)
(* JsonValue is a tagged tuple.  A JsonObject (serde_json::Map) is a       *)
(* sequence of <<key, value>> pairs with distinct keys, kept in key order, *)
(* which is how the map iterates and prints in this build (the expected    *)
(* strings of the tests list the keys alphabetically).  A Result is        *)
(* <<"Ok", value>> or <<"Err", error>>.                                    *)
(***************************************************************************)
EXTENDS Integers, Sequences, FiniteSets

VARIABLES feature, json, decoded, via, reencoded

vars == <<feature, json, decoded, via, reencoded>>

-----------------------------------------------------------------------------
(* Bounds of the model. *)

\* Largest number of foreign members of a Feature or of extra keys of an input.
MaxForeign == 2

\* Largest number of coordinates in a bounding box.
MaxBboxLen == 1

-----------------------------------------------------------------------------
(* Option and Result. *)

None == <<>>

Some(x) == <<x>>

IsSome(o) == Len(o) = 1

IsNone(o) == Len(o) = 0

Unwrap(o) == o[1]

Ok(x) == <<"Ok", x>>

Err(e) == <<"Err", e>>

IsOk(r) == r[1] = "Ok"

IsErr(r) == r[1] = "Err"

-----------------------------------------------------------------------------
(* JsonValue: the tagged union over null, bool, number, string, array,     *)
(* object.  A serde_json::Number keeps the integer/float distinction of    *)
(* its literal: <<"PosInt", n>> is the literal n, <<"Float", n>> is n.0.   *)

JNull == <<"Null">>

JBool(b) == <<"Bool", b>>

JNumber(n) == <<"Number", n>>

JString(s) == <<"String", s>>

JArray(a) == <<"Array", a>>

JObject(m) == <<"Object", m>>

JKind(v) == v[1]

PosInt(n) == <<"PosInt", n>>

Float(n) == <<"Float", n>>

\* Number::from_f64 on a finite f64, as serde_json::to_value does for f64.
from_f64(x) == Float(x)

\* Number::as_f64: the numeric value, whatever the literal's form.
as_f64(n) == n[2]

-----------------------------------------------------------------------------
(* JsonObject. *)

\* The keys the model uses, in the map's key order.
KeyOrder ==
    <<"bbox", "crs", "geometry", "id", "other_member", "properties", "type">>

KeyRank(k) == CHOOSE i \in 1..Len(KeyOrder) : KeyOrder[i] = k

\* The five keys the decoder consumes.
ReservedKeys == {"type", "geometry", "properties", "id", "bbox"}

Keys(m) == {m[i][1] : i \in DOMAIN m}

ContainsKey(m, k) == k \in Keys(m)

\* Map::get
Get(m, k) ==
    IF ContainsKey(m, k)
    THEN Some(m[CHOOSE i \in DOMAIN m : m[i][1] = k][2])
    ELSE None

\* Map::insert: replaces the value of a key the map holds, otherwise adds the
\* entry at the key's place.
Insert(m, k, v) ==
    IF ContainsKey(m, k)
    THEN [m EXCEPT ![CHOOSE i \in DOMAIN m : m[i][1] = k] = <<k, v>>]
    ELSE SelectSeq(m, LAMBDA e : KeyRank(e[1]) < KeyRank(k))
         \o << <<k, v>> >>
         \o SelectSeq(m, LAMBDA e : KeyRank(e[1]) > KeyRank(k))

\* Map::remove: the other entries keep their order.
Remove(m, k) == SelectSeq(m, LAMBDA e : e[1] # k)

\* `for (key, value) in foreign_members { map.insert(key, value) }`
RECURSIVE InsertAll(_, _)
InsertAll(m, entries) ==
    IF entries = <<>>
    THEN m
    ELSE InsertAll(Insert(m, Head(entries)[1], Head(entries)[2]), Tail(entries))

-----------------------------------------------------------------------------
(* The Geometry type and its codec, which feature.rs uses through          *)
(* serde_json::to_value(&feature.geometry) and util::get_geometry.  A      *)
(* Geometry is <<"Point", coordinates>>, coordinates a sequence of f64.    *)

Point(c) == <<"Point", c>>

\* f64 sequence -> JSON array of numbers (the Serialize of Vec<f64>).
to_value_f64s(xs) == JArray([i \in DOMAIN xs |-> JNumber(from_f64(xs[i]))])

IsNumberArray(v) ==
    /\ JKind(v) = "Array"
    /\ \A i \in DOMAIN v[2] : JKind(v[2][i]) = "Number"

\* JSON array of numbers -> f64 sequence.
as_f64s(v) == [i \in DOMAIN v[2] |-> as_f64(v[2][i][2])]

\* Serialize for Geometry.
Geometry_to_value(g) ==
    JObject(<< <<"coordinates", to_value_f64s(g[2])>>, <<"type", JString(g[1])>> >>)

\* Whether a JSON object is a Geometry document.
IsGeometryDocument(x) ==
    /\ IsSome(Get(x, "type"))
    /\ JKind(Unwrap(Get(x, "type"))) = "String"
    /\ Unwrap(Get(x, "type"))[2] = "Point"
    /\ IsSome(Get(x, "coordinates"))
    /\ IsNumberArray(Unwrap(Get(x, "coordinates")))

\* Geometry::from_json_object on a Geometry document.
Geometry_from_json_object(x) == Point(as_f64s(Unwrap(Get(x, "coordinates"))))

-----------------------------------------------------------------------------
(* Id and its Serialize. *)

IdString(s) == <<"Id::String", s>>

IdNumber(n) == <<"Id::Number", n>>

Id_serialize(id) ==
    IF id[1] = "Id::String" THEN JString(id[2]) ELSE JNumber(id[2])

-----------------------------------------------------------------------------
(* Feature and the encoder. *)

Feature(g, p, i, b, fm) ==
    [geometry |-> g, properties |-> p, id |-> i, bbox |-> b, foreign_members |-> fm]

\* serde_json::to_value(&feature.geometry)
to_value_geometry(g) == IF IsSome(g) THEN Geometry_to_value(Unwrap(g)) ELSE JNull

\* Variants of the encoder, each with one slip: the bbox branch left out, the
\* foreign-member loop left out, absent properties written as null.
From_Feature_NoBbox(f) ==
    LET m1 == Insert(<<>>, "type", JString("Feature"))
        m2 == Insert(m1, "geometry", to_value_geometry(f.geometry))
        m3 == IF IsSome(f.properties)
              THEN Insert(m2, "properties", JObject(Unwrap(f.properties)))
              ELSE Insert(m2, "properties", JObject(<<>>))
        m5 == IF IsSome(f.id)
              THEN Insert(m3, "id", Id_serialize(Unwrap(f.id)))
              ELSE m3
    IN  IF IsSome(f.foreign_members)
        THEN InsertAll(m5, Unwrap(f.foreign_members))
        ELSE m5

From_Feature_NoForeign(f) ==
    LET m1 == Insert(<<>>, "type", JString("Feature"))
        m2 == Insert(m1, "geometry", to_value_geometry(f.geometry))
        m3 == IF IsSome(f.properties)
              THEN Insert(m2, "properties", JObject(Unwrap(f.properties)))
              ELSE Insert(m2, "properties", JObject(<<>>))
        m4 == IF IsSome(f.bbox)
              THEN Insert(m3, "bbox", to_value_f64s(Unwrap(f.bbox)))
              ELSE m3
    IN  IF IsSome(f.id)
        THEN Insert(m4, "id", Id_serialize(Unwrap(f.id)))
        ELSE m4

From_Feature_PropertiesNull(f) ==
    LET m1 == Insert(<<>>, "type", JString("Feature"))
        m2 == Insert(m1, "geometry", to_value_geometry(f.geometry))
        m3 == IF IsSome(f.properties)
              THEN Insert(m2, "properties", JObject(Unwrap(f.properties)))
              ELSE Insert(m2, "properties", JNull)
        m4 == IF IsSome(f.bbox)
              THEN Insert(m3, "bbox", to_value_f64s(Unwrap(f.bbox)))
              ELSE m3
        m5 == IF IsSome(f.id)
              THEN Insert(m4, "id", Id_serialize(Unwrap(f.id)))
              ELSE m4
    IN  IF IsSome(f.foreign_members)
        THEN InsertAll(m5, Unwrap(f.foreign_members))
        ELSE m5

\* impl From<&Feature> for JsonObject
From_Feature(f) ==
    LET m1 == Insert(<<>>, "type", JString("Feature"))
        m2 == Insert(m1, "geometry", to_value_geometry(f.geometry))
        m3 == IF IsSome(f.properties)
              THEN Insert(m2, "properties", JObject(Unwrap(f.properties)))
              ELSE Insert(m2, "properties", JObject(<<>>))
        m4 == IF IsSome(f.bbox)
              THEN Insert(m3, "bbox", to_value_f64s(Unwrap(f.bbox)))
              ELSE m3
        m5 == IF IsSome(f.id)
              THEN Insert(m4, "id", Id_serialize(Unwrap(f.id)))
              ELSE m4
    IN  IF IsSome(f.foreign_members)
        THEN InsertAll(m5, Unwrap(f.foreign_members))
        ELSE m5

-----------------------------------------------------------------------------
(* The field helpers of util, by their contracts.  Each takes the object   *)
(* and returns Ok(<<value, object without the consumed key>>) or Err.      *)

\* util::expect_type: the tag string, or the unknown-type error.
expect_type(object) ==
    LET t == Get(object, "type")
    IN  IF IsSome(t) /\ JKind(Unwrap(t)) = "String"
        THEN Ok(<<Unwrap(t)[2], Remove(object, "type")>>)
        ELSE Err("GeoJsonUnknownType")

\* util::get_geometry
get_geometry(object) ==
    LET g == Get(object, "geometry")
        rest == Remove(object, "geometry")
    IN  IF IsNone(g) THEN Err("GeometryKeyMissing")
        ELSE IF JKind(Unwrap(g)) = "Null" THEN Ok(<<None, rest>>)
        ELSE IF JKind(Unwrap(g)) = "Object" /\ IsGeometryDocument(Unwrap(g)[2])
             THEN Ok(<<Some(Geometry_from_json_object(Unwrap(g)[2])), rest>>)
        ELSE Err("FeatureInvalidGeometryValue")

\* util::get_properties
get_properties(object) ==
    LET p == Get(object, "properties")
        rest == Remove(object, "properties")
    IN  IF IsNone(p) THEN Err("PropertiesKeyMissing")
        ELSE IF JKind(Unwrap(p)) = "Null" THEN Ok(<<None, rest>>)
        ELSE IF JKind(Unwrap(p)) = "Object" THEN Ok(<<Some(Unwrap(p)[2]), rest>>)
        ELSE Err("PropertiesExpectedObjectOrNull")

\* util::get_id
get_id(object) ==
    LET i == Get(object, "id")
        rest == Remove(object, "id")
    IN  IF IsNone(i) THEN Ok(<<None, rest>>)
        ELSE IF JKind(Unwrap(i)) = "String"
             THEN Ok(<<Some(IdString(Unwrap(i)[2])), rest>>)
        ELSE IF JKind(Unwrap(i)) = "Number"
             THEN Ok(<<Some(IdNumber(Unwrap(i)[2])), rest>>)
        ELSE Err("FeatureInvalidIdentifierType")

\* util::get_bbox
get_bbox(object) ==
    LET b == Get(object, "bbox")
        rest == Remove(object, "bbox")
    IN  IF IsNone(b) THEN Ok(<<None, rest>>)
        ELSE IF IsNumberArray(Unwrap(b)) THEN Ok(<<Some(as_f64s(Unwrap(b))), rest>>)
        ELSE Err("BboxMalformed")

\* util::get_foreign_members: what is left of the object, None when nothing is.
get_foreign_members(object) ==
    IF object = <<>> THEN Ok(None) ELSE Ok(Some(object))

-----------------------------------------------------------------------------
(* The decoders. *)

\* Variants of the object decoder, each with one slip.  try_from_with is the
\* decoder with its tag test, its three fallible field steps and the source
\* of its foreign members left open.
try_from_with(object, AcceptTag(_), geometry(_), properties(_), id(_), foreign(_, _)) ==
    LET t == expect_type(object)
    IN  IF IsErr(t) THEN t
        ELSE IF ~AcceptTag(t[2][1]) THEN Err("GeoJsonUnknownType")
        ELSE LET g == geometry(t[2][2])
        IN  IF IsErr(g) THEN g
        ELSE LET p == properties(g[2][2])
        IN  IF IsErr(p) THEN p
        ELSE LET i == id(p[2][2])
        IN  IF IsErr(i) THEN i
        ELSE LET b == get_bbox(i[2][2])
        IN  IF IsErr(b) THEN b
        ELSE LET fm == foreign(object, b[2][2])
        IN  IF IsErr(fm) THEN fm
        ELSE Ok(Feature(g[2][1], p[2][1], i[2][1], b[2][1], fm[2]))

IsFeatureTag(s) == s = "Feature"

Residual(original, rest) == get_foreign_members(rest)

\* A helper whose error is replaced by None (unwrap_or_default).
OrNone(r, object, k) == IF IsErr(r) THEN Ok(<<None, Remove(object, k)>>) ELSE r

\* Any tag string is accepted.
try_from_object_AnyTag(object) ==
    try_from_with(object, LAMBDA s : TRUE, get_geometry, get_properties, get_id, Residual)

\* An undecodable or missing geometry becomes None.
try_from_object_GeometryOrNone(object) ==
    try_from_with(object, IsFeatureTag,
                  LAMBDA o : OrNone(get_geometry(o), o, "geometry"),
                  get_properties, get_id, Residual)

\* A missing or ill-typed properties value becomes None.
try_from_object_PropertiesOrNone(object) ==
    try_from_with(object, IsFeatureTag, get_geometry,
                  LAMBDA o : OrNone(get_properties(o), o, "properties"),
                  get_id, Residual)

\* An ill-typed id becomes None.
try_from_object_IdOrNone(object) ==
    try_from_with(object, IsFeatureTag, get_geometry, get_properties,
                  LAMBDA o : OrNone(get_id(o), o, "id"), Residual)

\* The foreign members are taken from the object as it came in.
try_from_object_WholeObject(object) ==
    try_from_with(object, IsFeatureTag, get_geometry, get_properties, get_id,
                  LAMBDA original, rest : get_foreign_members(original))

\* The unknown keys are dropped.
try_from_object_NoForeign(object) ==
    try_from_with(object, IsFeatureTag, get_geometry, get_properties, get_id,
                  LAMBDA original, rest : Ok(None))

\* properties is extracted before geometry.
try_from_object_PropertiesFirst(object) ==
    LET t == expect_type(object)
    IN  IF IsErr(t) THEN t
        ELSE IF t[2][1] # "Feature" THEN Err("GeoJsonUnknownType")
        ELSE LET p == get_properties(t[2][2])
        IN  IF IsErr(p) THEN p
        ELSE LET g == get_geometry(p[2][2])
        IN  IF IsErr(g) THEN g
        ELSE LET i == get_id(g[2][2])
        IN  IF IsErr(i) THEN i
        ELSE LET b == get_bbox(i[2][2])
        IN  IF IsErr(b) THEN b
        ELSE LET fm == get_foreign_members(b[2][2])
        IN  IF IsErr(fm) THEN fm
        ELSE Ok(Feature(g[2][1], p[2][1], i[2][1], b[2][1], fm[2]))

\* impl TryFrom<JsonObject> for FeatureBase.  The `?` after each helper
\* returns its error at once; the fields are evaluated in the order written.
try_from_object(object) ==
    LET t == expect_type(object)
    IN  IF IsErr(t) THEN t
        ELSE IF t[2][1] # "Feature" THEN Err("GeoJsonUnknownType")
        ELSE LET g == get_geometry(t[2][2])
        IN  IF IsErr(g) THEN g
        ELSE LET p == get_properties(g[2][2])
        IN  IF IsErr(p) THEN p
        ELSE LET i == get_id(p[2][2])
        IN  IF IsErr(i) THEN i
        ELSE LET b == get_bbox(i[2][2])
        IN  IF IsErr(b) THEN b
        ELSE LET fm == get_foreign_members(b[2][2])
        IN  IF IsErr(fm) THEN fm
        ELSE Ok(Feature(g[2][1], p[2][1], i[2][1], b[2][1], fm[2]))

\* impl TryFrom<JsonValue> for FeatureBase
try_from_value(value) ==
    IF JKind(value) = "Object"
    THEN try_from_object(value[2])
    ELSE Err("GeoJsonExpectedObject")

\* FeatureBase::from_json_object
from_json_object(object) == try_from_object(object)

\* FeatureBase::from_json_value
from_json_value(value) == try_from_value(value)

-----------------------------------------------------------------------------
(* The inputs: the Feature values handed to the encoder and the JSON       *)
(* values handed to the decoders.                                          *)

F64s == {0, 1}

\* The maps with at most MaxForeign of the keys K, in key order.
ToObject(fn) ==
    LET ks == SelectSeq(KeyOrder, LAMBDA k : k \in DOMAIN fn)
    IN  [i \in 1..Len(ks) |-> <<ks[i], fn[ks[i]]>>]

MemberValues == {JString("some_value"), JNull}

MemberMaps(K) ==
    {ToObject(fn) : fn \in UNION {[S -> MemberValues] :
                        S \in {T \in SUBSET K : Cardinality(T) <= MaxForeign}}}

AllKeys == {KeyOrder[i] : i \in DOMAIN KeyOrder}

PropertyObjects == {<<>>, << <<"a", JNumber(PosInt(1))>> >>}

BboxValues == UNION {[1..n -> F64s] : n \in 0..MaxBboxLen}

OptionOf(S) == {None} \cup {Some(x) : x \in S}

\* Feature values built by direct field assignment: every field is free,
\* the foreign members may use any key.
Features ==
    {Feature(g, p, i, b, fm) :
        g \in OptionOf({Point(<<1, 0>>)}),
        p \in OptionOf(PropertyObjects),
        i \in OptionOf({IdString("foo"), IdString("1"),
                        IdNumber(PosInt(1)), IdNumber(Float(1))}),
        b \in OptionOf(BboxValues),
        fm \in OptionOf(MemberMaps(AllKeys))}

\* What an input object holds under each key; None is a missing key.
TypeInputs == OptionOf({JString("Feature"), JString("Point"), JNumber(PosInt(1))})

GeometryInputs ==
    OptionOf({JNull, Geometry_to_value(Point(<<1, 0>>)), JNumber(Float(3)),
              JObject(<< <<"type", JString("Bogus")>> >>)})

PropertiesInputs ==
    OptionOf({JNull, JObject(<<>>), JObject(<< <<"a", JNumber(PosInt(1))>> >>),
              JArray(<<>>), JString("foo"), JNumber(PosInt(1)), JBool(TRUE)})

IdInputs ==
    OptionOf({JString("foo"), JNumber(PosInt(0)), JNull, JObject(<<>>),
              JArray(<<>>), JBool(TRUE)})

BboxInputs ==
    OptionOf({JArray(a) : a \in UNION {[1..n -> {JNumber(PosInt(1)), JNumber(Float(0))}] :
                                          n \in 0..MaxBboxLen}}
             \cup {JString("foo"), JArray(<<JNull>>)})

InsertOption(m, k, o) == IF IsSome(o) THEN Insert(m, k, Unwrap(o)) ELSE m

InputObjects ==
    {InsertOption(InsertOption(InsertOption(InsertOption(InsertOption(
         extra, "type", t), "geometry", g), "properties", p), "id", i), "bbox", b) :
        t \in TypeInputs, g \in GeometryInputs, p \in PropertiesInputs,
        i \in IdInputs, b \in BboxInputs,
        extra \in MemberMaps(AllKeys \ ReservedKeys)}

InputValues ==
    {JObject(o) : o \in InputObjects}
    \cup {JNull, JBool(TRUE), JNumber(Float(3)), JString("Feature"), JArray(<<>>)}

-----------------------------------------------------------------------------
(* The state machine.  `feature` is the Feature handed to the encoder,     *)
(* `json` the JSON value in hand (an input, or the encoder's output),      *)
(* `decoded` the decoder's result for `json`, `via` the entry point that   *)
(* produced it, `reencoded` the encoder's output for the decoded Feature.  *)
(* Each is an Option, None until it exists.                                *)

InitFeature ==
    /\ feature \in {Some(f) : f \in Features}
    /\ json = None

InitJson ==
    /\ feature = None
    /\ json \in {Some(v) : v \in InputValues}

Init ==
    /\ InitFeature \/ InitJson
    /\ decoded = None
    /\ via = "none"
    /\ reencoded = None

\* JsonObject::from(&feature)
Encode ==
    /\ IsSome(feature)
    /\ IsNone(json)
    /\ json' = Some(JObject(From_Feature(Unwrap(feature))))
    /\ UNCHANGED <<feature, decoded, via, reencoded>>

\* Feature::from_json_object(object)
DecodeObject ==
    /\ IsSome(json)
    /\ JKind(Unwrap(json)) = "Object"
    /\ IsNone(decoded)
    /\ decoded' = Some(from_json_object(Unwrap(json)[2]))
    /\ via' = "object"
    /\ UNCHANGED <<feature, json, reencoded>>

\* Feature::from_json_value(value)
DecodeValue ==
    /\ IsSome(json)
    /\ IsNone(decoded)
    /\ decoded' = Some(from_json_value(Unwrap(json)))
    /\ via' = "value"
    /\ UNCHANGED <<feature, json, reencoded>>

\* JsonObject::from(&decoded_feature)
EncodeDecoded ==
    /\ IsSome(decoded)
    /\ IsOk(Unwrap(decoded))
    /\ IsNone(reencoded)
    /\ reencoded' = Some(JObject(From_Feature(Unwrap(decoded)[2])))
    /\ UNCHANGED <<feature, json, decoded, via>>

Next == Encode \/ DecodeObject \/ DecodeValue \/ EncodeDecoded

Spec == Init /\ [][Next]_vars

-----------------------------------------------------------------------------
(* Shorthands for the properties. *)

F == Unwrap(feature)

J == Unwrap(json)

D == Unwrap(decoded)

\* The foreign members of a Feature as a (possibly empty) list of entries.
Members(f) == IF IsSome(f.foreign_members) THEN Unwrap(f.foreign_members) ELSE <<>>

\* `json` is the encoder's output for `feature` and has been decoded.
RoundTripped == IsSome(feature) /\ IsSome(json) /\ IsSome(decoded)

\* `json` is an object and has been decoded.
DecodedObject == IsSome(json) /\ JKind(J) = "Object" /\ IsSome(decoded)

\* f with properties = None replaced by Some(empty map).
WithPropertiesObject(f) ==
    [f EXCEPT !.properties = IF IsNone(@) THEN Some(<<>>) ELSE @]

\* The error of each decoding step applied on its own to the object as it
\* came in, in the order type tag, geometry, properties, id, bbox; None for
\* a step that passes.
StepError(r) == IF IsErr(r) THEN Some(r[2]) ELSE None

TagError(o) ==
    IF IsErr(expect_type(o)) THEN Some(expect_type(o)[2])
    ELSE IF expect_type(o)[2][1] # "Feature" THEN Some("GeoJsonUnknownType")
    ELSE None

StepErrors(o) ==
    <<TagError(o), StepError(get_geometry(o)), StepError(get_properties(o)),
      StepError(get_id(o)), StepError(get_bbox(o))>>

FirstError(o) ==
    LET failing == SelectSeq(StepErrors(o), IsSome)
    IN  IF failing = <<>> THEN None ELSE Head(failing)

\* Every step other than step number n passes on o.
OtherwiseValid(o, n) == \A i \in 1..5 : i # n => IsNone(StepErrors(o)[i])

-----------------------------------------------------------------------------
(* C1 *)

\* C1 as stated: for every Feature without foreign members, decoding the
\* encoder's output succeeds and yields a Feature equal to it in every field.
C1_RoundTripExact ==
    (RoundTripped /\ IsNone(F.foreign_members)) => (IsOk(D) /\ D[2] = F)

\* C1 amended: for every Feature without foreign members, decoding the
\* encoder's output succeeds and yields a Feature equal to it in every field,
\* except that properties = None comes back as Some(empty map).
C1_RoundTrip ==
    (RoundTripped /\ IsNone(F.foreign_members)) =>
        /\ IsOk(D)
        /\ D[2] = WithPropertiesObject(F)
        /\ (IsSome(F.properties) => D[2] = F)
        /\ (IsNone(F.properties) => D[2] # F)

C1_Witness ==
    /\ RoundTripped
    /\ IsNone(F.foreign_members)
    /\ IsSome(F.geometry) /\ IsSome(F.bbox) /\ Len(Unwrap(F.bbox)) > 0
    /\ F.id = Some(IdNumber(PosInt(1)))
    /\ F.properties = Some(<< <<"a", JNumber(PosInt(1))>> >>)
    /\ D = Ok(F)

-----------------------------------------------------------------------------
(* C2 *)

\* C2 as stated: for every Feature with one or more foreign members,
\* whatever their keys, decoding the encoder's output succeeds, the decoded
\* foreign members hold every foreign key with its stored value, and the
\* decoded Feature equals the original.
C2_ForeignRoundTripAnyKey ==
    (RoundTripped /\ Len(Members(F)) >= 1) =>
        /\ IsOk(D)
        /\ \A i \in DOMAIN Members(F) :
              Get(Members(D[2]), Members(F)[i][1]) = Some(Members(F)[i][2])
        /\ D[2] = F

\* C2 amended: for every Feature with one or more foreign members none of
\* whose keys is type, geometry, properties, id or bbox, decoding the
\* encoder's output succeeds, the decoded foreign members are exactly the
\* stored ones, and the decoded Feature equals the original except that
\* properties = None comes back as Some(empty map).
C2_ForeignRoundTrip ==
    (/\ RoundTripped
     /\ Len(Members(F)) >= 1
     /\ Keys(Members(F)) \cap ReservedKeys = {}) =>
        /\ IsOk(D)
        /\ \A i \in DOMAIN Members(F) :
              Get(Members(D[2]), Members(F)[i][1]) = Some(Members(F)[i][2])
        /\ D[2].foreign_members = F.foreign_members
        /\ D[2] = WithPropertiesObject(F)

C2_Witness ==
    /\ RoundTripped
    /\ Len(Members(F)) = 2
    /\ Keys(Members(F)) \cap ReservedKeys = {}
    /\ IsSome(F.id) /\ IsSome(F.bbox)
    /\ D = Ok(F)

-----------------------------------------------------------------------------
(* C3 *)

\* C3: for an object otherwise valid, properties = null decodes to
\* properties = None; an object decodes to Some(that object), and
\* Some(empty map) differs from None; a missing properties key makes the
\* decode fail; a value of any other JSON type makes it fail with an error
\* different from the one for the missing key.
C3_PropertiesThreeStates ==
    (DecodedObject /\ OtherwiseValid(J[2], 3)) =>
        LET p == Get(J[2], "properties")
        IN  IF IsNone(p) THEN IsErr(D)
            ELSE IF JKind(Unwrap(p)) = "Null"
                 THEN IsOk(D) /\ D[2].properties = None
            ELSE IF JKind(Unwrap(p)) = "Object"
                 THEN /\ IsOk(D)
                      /\ D[2].properties = Some(Unwrap(p)[2])
                      /\ D[2].properties # None
            ELSE /\ IsErr(D)
                 /\ IsErr(from_json_object(Remove(J[2], "properties")))
                 /\ D # from_json_object(Remove(J[2], "properties"))

C3_Witness ==
    /\ DecodedObject
    /\ IsNone(feature)
    /\ OtherwiseValid(J[2], 3)
    /\ Get(J[2], "properties") = Some(JArray(<<>>))
    /\ IsSome(Get(J[2], "id"))
    /\ IsErr(D)

-----------------------------------------------------------------------------
(* C4 *)

\* C4: for an object otherwise valid, an absent id yields id = None; a JSON
\* string s yields Some(Id::String(s)); a JSON number n yields
\* Some(Id::Number(n)), a different value from the Id::String of any text;
\* any other JSON type, null included, fails with
\* Error::FeatureInvalidIdentifierType.
C4_IdTypeEnforcement ==
    (DecodedObject /\ OtherwiseValid(J[2], 4)) =>
        LET i == Get(J[2], "id")
        IN  IF IsNone(i) THEN IsOk(D) /\ D[2].id = None
            ELSE IF JKind(Unwrap(i)) = "String"
                 THEN /\ IsOk(D)
                      /\ D[2].id = Some(<<"Id::String", Unwrap(i)[2]>>)
            ELSE IF JKind(Unwrap(i)) = "Number"
                 THEN /\ IsOk(D)
                      /\ D[2].id = Some(<<"Id::Number", Unwrap(i)[2]>>)
                      /\ Unwrap(D[2].id)[1] # "Id::String"
            ELSE D = Err("FeatureInvalidIdentifierType")

C4_Witness ==
    /\ DecodedObject
    /\ IsNone(feature)
    /\ OtherwiseValid(J[2], 4)
    /\ Get(J[2], "id") = Some(JNull)
    /\ D = Err("FeatureInvalidIdentifierType")

-----------------------------------------------------------------------------
(* C5 *)

\* C5: for an object otherwise valid, geometry = null decodes to
\* geometry = None; a Geometry document decodes to Some(Geometry); a
\* present value that is neither fails with
\* Error::FeatureInvalidGeometryValue; a missing geometry key fails with a
\* different error.
C5_GeometryExtraction ==
    (DecodedObject /\ OtherwiseValid(J[2], 2)) =>
        LET g == Get(J[2], "geometry")
        IN  IF IsNone(g)
            THEN IsErr(D) /\ D # Err("FeatureInvalidGeometryValue")
            ELSE IF JKind(Unwrap(g)) = "Null"
                 THEN IsOk(D) /\ D[2].geometry = None
            ELSE IF JKind(Unwrap(g)) = "Object" /\ IsGeometryDocument(Unwrap(g)[2])
                 THEN /\ IsOk(D)
                      /\ IsSome(D[2].geometry)
                      /\ Geometry_to_value(Unwrap(D[2].geometry)) = Unwrap(g)
            ELSE D = Err("FeatureInvalidGeometryValue")

C5_Witness ==
    /\ DecodedObject
    /\ IsNone(feature)
    /\ OtherwiseValid(J[2], 2)
    /\ Get(J[2], "geometry") = Some(JNumber(Float(3)))
    /\ D = Err("FeatureInvalidGeometryValue")

-----------------------------------------------------------------------------
(* C6 *)

\* C6: decoding an object succeeds only if it has a type key whose value is
\* the string "Feature"; with any other string, a non-string value or no
\* type key it fails with Error::GeoJsonUnknownType.
C6_TypeTag ==
    DecodedObject =>
        LET t == Get(J[2], "type")
            tagged == IsSome(t) /\ JKind(Unwrap(t)) = "String"
                                /\ Unwrap(t)[2] = "Feature"
        IN  /\ IsOk(D) => tagged
            /\ ~tagged => D = Err("GeoJsonUnknownType")

C6_Witness ==
    /\ DecodedObject
    /\ IsNone(feature)
    /\ OtherwiseValid(J[2], 1)
    /\ Get(J[2], "type") = Some(JString("Point"))
    /\ D = Err("GeoJsonUnknownType")

-----------------------------------------------------------------------------
(* C7 *)

\* `json` is the encoder's output for `feature`.
Encoded == IsSome(feature) /\ IsSome(json)

\* What the encoder writes under each typed key.
TypedKeys(f) ==
    {"type", "geometry", "properties"}
    \cup (IF IsSome(f.bbox) THEN {"bbox"} ELSE {})
    \cup (IF IsSome(f.id) THEN {"id"} ELSE {})

TypedEntry(f, k) ==
    CASE k = "type" -> JString("Feature")
      [] k = "geometry" ->
            IF IsNone(f.geometry) THEN JNull ELSE Geometry_to_value(Unwrap(f.geometry))
      [] k = "properties" ->
            IF IsNone(f.properties) THEN JObject(<<>>) ELSE JObject(Unwrap(f.properties))
      [] k = "bbox" ->
            JArray([n \in DOMAIN Unwrap(f.bbox) |-> JNumber(Float(Unwrap(f.bbox)[n]))])
      [] k = "id" ->
            IF Unwrap(f.id)[1] = "Id::String"
            THEN JString(Unwrap(f.id)[2])
            ELSE JNumber(Unwrap(f.id)[2])

\* C7 as stated: for every Feature the encoder's output holds type =
\* "Feature", geometry, properties ({} when absent), bbox and id only if
\* present, each with the value of the typed field, and every foreign
\* member exactly as stored.
C7_EncoderOutputAnyKey ==
    Encoded =>
        /\ JKind(J) = "Object"
        /\ \A k \in TypedKeys(F) : Get(J[2], k) = Some(TypedEntry(F, k))
        /\ ContainsKey(J[2], "bbox") <=> IsSome(F.bbox)
        /\ ContainsKey(J[2], "id") <=> IsSome(F.id)
        /\ \A i \in DOMAIN Members(F) :
              Get(J[2], Members(F)[i][1]) = Some(Members(F)[i][2])

\* C7 amended: for every Feature the encoder's output is an object whose
\* keys are type, geometry, properties, bbox and id when present, and the
\* foreign keys; every foreign member is there exactly as stored and in
\* stored order; and each typed key that no foreign member is spelled like
\* carries the value of the typed field (type = "Feature", geometry or null,
\* properties or {}, bbox, id as string or unchanged number).  A foreign
\* member spelled like a typed key replaces that entry.
C7_EncoderOutput ==
    Encoded =>
        /\ JKind(J) = "Object"
        /\ Keys(J[2]) = TypedKeys(F) \cup Keys(Members(F))
        /\ Len(J[2]) = Cardinality(Keys(J[2]))
        /\ SelectSeq(J[2], LAMBDA e : e[1] \in Keys(Members(F))) = Members(F)
        /\ \A k \in TypedKeys(F) \ Keys(Members(F)) :
              Get(J[2], k) = Some(TypedEntry(F, k))

C7_Witness ==
    /\ Encoded
    /\ IsNone(F.properties) /\ IsNone(F.geometry)
    /\ F.id = Some(IdNumber(Float(1)))
    /\ IsSome(F.bbox)
    /\ Keys(Members(F)) = {"crs", "other_member"}
    /\ Get(J[2], "properties") = Some(JObject(<<>>))
    /\ Get(J[2], "geometry") = Some(JNull)

-----------------------------------------------------------------------------
(* C8 *)

\* The entries of an object whose key is not one the decoder consumes.
Unrecognized(o) == SelectSeq(o, LAMBDA e : e[1] \notin ReservedKeys)

\* C8: for every successfully decoded object, foreign_members holds exactly
\* the entries whose key is not type, geometry, properties, id or bbox, with
\* their keys and values, in the object's order; it holds none of those five
\* keys; and it is None, never Some(empty map), when there is no such entry.
C8_ForeignMembersCollected ==
    (DecodedObject /\ IsOk(D)) =>
        /\ Keys(Members(D[2])) \cap ReservedKeys = {}
        /\ D[2].foreign_members # Some(<<>>)
        /\ D[2].foreign_members =
              IF Unrecognized(J[2]) = <<>> THEN None ELSE Some(Unrecognized(J[2]))

C8_Witness ==
    /\ DecodedObject
    /\ IsNone(feature)
    /\ IsOk(D)
    /\ Keys(J[2]) = AllKeys
    /\ Len(Members(D[2])) = 2

-----------------------------------------------------------------------------
(* C9 *)

\* C9: decoding a JSON value that is not an object fails with
\* Error::GeoJsonExpectedObject; decoding an object, through either entry
\* point, fails with the error of the earliest failing step in the order
\* type tag, geometry, properties, id, bbox, and yields a Feature only when
\* no step fails.
C9_ErrorPrecedence ==
    (IsSome(json) /\ IsSome(decoded)) =>
        IF JKind(J) # "Object"
        THEN via = "value" /\ D = Err("GeoJsonExpectedObject")
        ELSE IF IsSome(FirstError(J[2]))
             THEN D = Err(Unwrap(FirstError(J[2])))
             ELSE IsOk(D)

C9_Witness ==
    /\ IsSome(json) /\ IsSome(decoded)
    /\ via = "value"
    /\ JKind(J) = "Object"
    /\ IsNone(StepErrors(J[2])[1])
    /\ \A n \in 2..5 : IsSome(StepErrors(J[2])[n])
    /\ Get(J[2], "geometry") = Some(JNumber(Float(3)))
    /\ D = Err("FeatureInvalidGeometryValue")

-----------------------------------------------------------------------------
(* C10 *)

\* C10: for every Feature whose foreign-member keys are none of type,
\* geometry, properties, id, bbox, decoding the encoder's output succeeds,
\* and encoding the decoded Feature gives that output again, also when the
\* decoded Feature differs from the original.
C10_ReencodeStable ==
    (RoundTripped /\ Keys(Members(F)) \cap ReservedKeys = {}) =>
        /\ IsOk(D)
        /\ IsSome(reencoded) => Unwrap(reencoded) = J

C10_Witness ==
    /\ RoundTripped
    /\ F.properties = None
    /\ F.foreign_members = Some(<<>>)
    /\ IsSome(F.id) /\ IsSome(F.bbox)
    /\ IsOk(D)
    /\ D[2] # F
    /\ D[2].properties = Some(<<>>)
    /\ D[2].foreign_members = None
    /\ reencoded = json

====
